---------------------------- MODULE Spec2Model ----------------------------
(***************************************************************************)
(* QuickURL: the token-keyed URL record lifecycle of src/src/main.rs.      *)
(*                                                                         *)
(* The state is the `urls` table, the ambient clock and, per request, the  *)
(* position of its handler and the handler's local variables.  Every       *)
(* handler is cut at its suspension points (the `.await` of a store        *)
(* operation) and at its reads of the clock; the store executes each SQL   *)
(* statement atomically.  Requests are numbered in order of arrival and    *)
(* each keeps its response once done, so a state carries the history the   *)
(* properties below speak about.                                           *)
(***************************************************************************)
EXTENDS Integers, Sequences, FiniteSets, TLC

\* ------------------------------------------------------------ bounds
\* Number of requests of one run.
MaxRequests == 3
\* Number of create requests among them.
MaxCreates == 2
\* Number of times the clock advances in one run.
MaxTicks == 2
\* Client-supplied expires_at values are 0..MaxExpiresInput.
MaxExpiresInput == 0
\* Number of store operations that fail in one run.
MaxFailures == 1

\* with_length is given lengths 0..MaxTokenLength.
MaxTokenLength == 2
\* Number of calls of generate on one generator.
MaxCalls == 2

\* ------------------------------------------------------------ constants
\* chrono::Duration::days(30), in clock units (one unit = one day).
Days30 == 30
\* TokenGenerator::new: length 6.
DefaultLength == 6

Reqs == 1..MaxRequests

\* Option::None of payload.title, and an absent response body.
None == "None"
\* Option::None of payload.expires_at.
NoExpiry == -1
\* fetch_optional's None.
NoRow == [id |-> -1]

\* Strings are sequences of characters.
HttpPrefix == <<"h", "t", "t", "p", ":", "/", "/">>
HttpsPrefix == <<"h", "t", "t", "p", "s", ":", "/", "/">>
BaseUrl == <<"h", "t", "t", "p", ":", "/", "/", "l", "o", "c", "a", "l", "h", "o", "s", "t", ":", "3", "0", "0", "0", "/">>

\* Request inputs.
Payloads ==
    { [ url |-> HttpPrefix \o <<"a">>, title |-> None ],
      [ url |-> HttpsPrefix \o <<"b">>, title |-> "T" ],
      [ url |-> <<"f", "t", "p", ":", "/", "/", "x">>, title |-> None ],
      [ url |-> <<"h", "t", "t", "p", ":", "/">>, title |-> None ] }
ExpiresInputs == { NoExpiry } \cup (0..MaxExpiresInput)
\* Values TokenGenerator::generate can return (6 characters of its alphabet),
\* and the path tokens clients send.
Tokens == { <<"a", "B", "c", "1", "2", "3">>, <<"Z", "y", "X", "0", "9", "8">> }
\* How far the clock moves in one advance.
ClockSteps == { 1, Days30 }

VARIABLES
    store,      \* the rows of table urls
    now,        \* the ambient clock, chrono::Utc::now()
    ticks,      \* how often the clock advanced
    failures,   \* how many store operations failed
    pc,         \* per request: where its handler stands
    req,        \* per request: the handler and its inputs
    loc,        \* per request: the handler's local variables
    resp,       \* per request: the response
    prev,       \* the request that completed last
    after,      \* per request: the request it directly followed, alone
    gen,        \* the TokenGenerator of AppState and the call of generate in progress
    gone        \* id and token of the records a resolution answered Gone for

vars == <<store, now, ticks, failures, pc, req, loc, resp, prev, after, gen, gone>>

\* ------------------------------------------------------------ pure code
StartsWith(s, prefix) ==
    Len(s) >= Len(prefix) /\ SubSeq(s, 1, Len(prefix)) = prefix

\* create_short_url's validation.
\* (Faulty variant first: only "http://" is accepted.)
ValidHttpOnly(url) == StartsWith(url, HttpPrefix)
ValidUrl(url) == StartsWith(url, HttpPrefix) \/ StartsWith(url, HttpsPrefix)

\* redirect_url's expiration test: `chrono::Utc::now() > expires_at`.
\* (Faulty variants first: >= for >, the comparison reversed, no test.)
IsExpiredAtOrAfter(t, expires_at) == t >= expires_at
IsExpiredReversed(t, expires_at) == t < expires_at
IsExpiredNever(t, expires_at) == FALSE
IsExpired(t, expires_at) == t > expires_at

ShortUrl(token) == BaseUrl \o token

\* AppError::into_response and the handlers' success codes.
StatusOf(kind) ==
    CASE kind = "Created" -> 201
      [] kind = "Ok" -> 200
      [] kind = "NoContent" -> 204
      [] kind = "Redirect" -> 308
      [] kind = "BadRequest" -> 400
      [] kind = "NotFound" -> 404
      [] kind = "Gone" -> 410
      [] kind = "DatabaseError" -> 500

Response(kind, body) == [kind |-> kind, status |-> StatusOf(kind), body |-> body]
NoResp == [kind |-> "none"]
ErrorKinds == { "BadRequest", "NotFound", "Gone", "DatabaseError" }

\* UrlInfo / CreateUrlResponse built from a row.
UrlInfo(row) ==
    [ id |-> row.id, token |-> row.token, original_url |-> row.original_url,
      short_url |-> ShortUrl(row.token), title |-> row.title,
      created_at |-> row.created_at, expires_at |-> row.expires_at,
      click_count |-> row.click_count ]

\* ------------------------------------------------------------ token.rs
CHARSET ==
    << "A", "B", "C", "D", "E", "F", "G", "H", "I", "J", "K", "L", "M",
       "N", "O", "P", "Q", "R", "S", "T", "U", "V", "W", "X", "Y", "Z",
       "a", "b", "c", "d", "e", "f", "g", "h", "i", "j", "k", "l", "m",
       "n", "o", "p", "q", "r", "s", "t", "u", "v", "w", "x", "y", "z",
       "0", "1", "2", "3", "4", "5", "6", "7", "8", "9" >>

\* TokenGenerator { length }, with the characters collected so far by the call
\* of generate in progress, the number of calls returned and the last token.
Generator(length) ==
    [ length |-> length, configured |-> length, out |-> <<>>, calls |-> 0,
      token |-> <<>> ]

\* rng.gen_range(0..CHARSET.len()): the indices drawn are sampled at the two
\* ends of the range.
DrawnIndices == { 0, Len(CHARSET) - 1 }

\* (0..self.length): the collection is complete after length characters.
\* (Faulty variant first: 0..=self.length.)
CollectedOneMore(g) == Len(g.out) = g.length + 1
Collected(g) == Len(g.out) = g.length

\* ------------------------------------------------------------ the store
\* The schema's uniqueness constraints on token and id, which make the INSERT
\* fail.  (Faulty variant first: a schema without them.)
NoConstraint(st, rec) == FALSE
UniqueViolation(st, rec) ==
    \E r \in st : r.token = rec.token \/ r.id = rec.id

\* SELECT * FROM urls WHERE token = ?
SelectByToken(st, token) == { r \in st : r.token = token }

\* fetch_optional: the first row, if any.
FetchOptional(rows) == IF rows = {} THEN NoRow ELSE CHOOSE r \in rows : TRUE

\* UPDATE urls SET click_count = click_count + 1 WHERE token = ?
\* (Faulty variants first: + 2; no WHERE clause.)  click_count is an i64; the
\* counts of a run stay far below its range.
UpdateAllRows(st, token) ==
    { [r EXCEPT !.click_count = @ + 1] : r \in st }
UpdateClickCountTwice(st, token) ==
    { IF r.token = token THEN [r EXCEPT !.click_count = @ + 2] ELSE r : r \in st }
UpdateClickCount(st, token) ==
    { IF r.token = token THEN [r EXCEPT !.click_count = @ + 1] ELSE r : r \in st }

\* DELETE FROM urls WHERE token = ?
\* (Faulty variant first: a delete that spares expired rows.)
DeleteUnexpiredOnly(st, token) ==
    { r \in st : ~(r.token = token /\ r.expires_at >= now) }
DeleteByToken(st, token) == { r \in st : r.token # token }

\* rows_affected of an UPDATE or DELETE ... WHERE token = ?
RowsAffected(st, token) == Cardinality(SelectByToken(st, token))

\* A store operation succeeds or fails as a whole (sqlx::Error).
StoreOutcomes == IF failures < MaxFailures THEN { "ok", "err" } ELSE { "ok" }
Failed(outcome) == failures' = IF outcome = "err" THEN failures + 1 ELSE failures

\* ------------------------------------------------------------ requests
InFlight == { q \in Reqs : pc[q] \notin { "idle", "done" } }

NoLoc == [ row |-> NoRow, read_at |-> -1, affected |-> -1 ]

\* Request p arrives: requests arrive in the order of their numbers.
Arrives(p) == pc[p] = "idle" /\ (IF p = 1 THEN TRUE ELSE pc[p - 1] # "idle")

\* Bookkeeping of arrival: p directly follows prev when nothing else runs;
\* a request that runs while p arrives no longer runs alone.
AfterOnArrival(p) ==
    [ q \in Reqs |->
        IF q = p THEN (IF InFlight = {} THEN prev ELSE 0)
        ELSE IF q \in InFlight THEN 0 ELSE after[q] ]

Init ==
    /\ store = {}
    /\ now = 0
    /\ ticks = 0
    /\ failures = 0
    /\ pc = [ p \in Reqs |-> "idle" ]
    /\ req = [ p \in Reqs |-> [ op |-> "none" ] ]
    /\ loc = [ p \in Reqs |-> NoLoc ]
    /\ resp = [ p \in Reqs |-> NoResp ]
    /\ prev = 0
    /\ after = [ p \in Reqs |-> 0 ]
    /\ gen = Generator(DefaultLength)
    /\ gone = {}

\* The clock advances on its own, at any moment.
Tick ==
    /\ ticks < MaxTicks
    /\ \E d \in ClockSteps : now' = now + d
    /\ ticks' = ticks + 1
    /\ UNCHANGED <<store, failures, pc, req, loc, resp, prev, after, gen, gone>>

Finish(p, r) ==
    /\ pc' = [pc EXCEPT ![p] = "done"]
    /\ resp' = [resp EXCEPT ![p] = r]
    /\ prev' = p

\* ---- POST /shorten: create_short_url
\* Validation, token and id generation, and the read of created_at.
CreateBegin(p) ==
    /\ Arrives(p)
    /\ Cardinality({ q \in Reqs : req[q].op = "create" }) < MaxCreates
    /\ \E payload \in Payloads, exp \in ExpiresInputs :
        /\ req' = [req EXCEPT ![p] =
                     [ op |-> "create", url |-> payload.url, title |-> payload.title,
                       expires_at |-> exp ]]
        /\ after' = AfterOnArrival(p)
        /\ IF ~ValidUrl(payload.url)
           THEN /\ Finish(p, Response("BadRequest", None))
                /\ UNCHANGED loc
           ELSE \E token \in Tokens :
                /\ loc' = [loc EXCEPT ![p] =
                             [ token |-> token, id |-> p, created_at |-> now,
                               expires_at |-> exp ]]
                /\ pc' = [pc EXCEPT ![p] =
                            IF exp = NoExpiry THEN "create_expiry" ELSE "create_insert"]
                /\ UNCHANGED <<resp, prev>>
    /\ UNCHANGED <<store, now, ticks, failures, gen, gone>>

\* unwrap_or_else: the default expires_at reads the clock again.
DefaultExpiry(t) == t + Days30

CreateDefaultExpiry(p) ==
    /\ pc[p] = "create_expiry"
    /\ loc' = [loc EXCEPT ![p].expires_at = DefaultExpiry(now)]
    /\ pc' = [pc EXCEPT ![p] = "create_insert"]
    /\ UNCHANGED <<store, now, ticks, failures, req, resp, prev, after, gen, gone>>

NewRow(p) ==
    [ id |-> loc[p].id, token |-> loc[p].token, original_url |-> req[p].url,
      title |-> req[p].title, created_at |-> loc[p].created_at,
      expires_at |-> loc[p].expires_at, click_count |-> 0 ]

\* The INSERT's error: map_err(AppError::DatabaseError) and `?` end the handler.
\* (Faulty variant first: the handler draws a token again and stays at the
\* INSERT.)
InsertRetried(p) ==
    /\ \E token \in Tokens : loc' = [loc EXCEPT ![p].token = token]
    /\ UNCHANGED <<store, pc, resp, prev>>
InsertFailed(p) ==
    /\ Finish(p, Response("DatabaseError", None))
    /\ UNCHANGED <<store, loc>>

\* The INSERT and the response.
CreateInsert(p) ==
    /\ pc[p] = "create_insert"
    /\ \E outcome \in StoreOutcomes :
        /\ Failed(outcome)
        /\ IF outcome = "err" \/ UniqueViolation(store, NewRow(p))
           THEN InsertFailed(p)
           ELSE /\ store' = store \cup { NewRow(p) }
                /\ Finish(p, Response("Created", UrlInfo(NewRow(p))))
                /\ UNCHANGED loc
    /\ UNCHANGED <<now, ticks, req, after, gen, gone>>

\* ---- GET /urls: list_urls
\* ORDER BY created_at DESC: the orders the clause allows; rows of equal
\* created_at may come either way.
\* (Faulty variant first: ORDER BY created_at ASC.)
SortedAsc(rows) ==
    { s \in [ 1..Cardinality(rows) -> rows ] :
        /\ \A i, j \in DOMAIN s : i # j => s[i] # s[j]
        /\ \A i, j \in DOMAIN s : i < j => s[i].created_at <= s[j].created_at }
SortedDesc(rows) ==
    { s \in [ 1..Cardinality(rows) -> rows ] :
        /\ \A i, j \in DOMAIN s : i # j => s[i] # s[j]
        /\ \A i, j \in DOMAIN s : i < j => s[i].created_at >= s[j].created_at }

\* fetch_all: the engine reads an unchanged table in one order.  Which of the
\* allowed orders it is, is the engine's choice and unknown to the handler.
FetchAll(rows) == CHOOSE s \in SortedDesc(rows) : TRUE

ListUrls(p) ==
    /\ Arrives(p)
    /\ req' = [req EXCEPT ![p] = [ op |-> "list" ]]
    /\ after' = AfterOnArrival(p)
    /\ \E outcome \in StoreOutcomes :
        /\ Failed(outcome)
        /\ IF outcome = "err"
           THEN Finish(p, Response("DatabaseError", None))
           ELSE LET s == FetchAll(store) IN
                   Finish(p, Response("Ok", [ i \in DOMAIN s |-> UrlInfo(s[i]) ]))
    /\ UNCHANGED <<store, now, ticks, loc, gen, gone>>

\* ---- GET /urls/:token: get_url_info
GetUrlInfo(p) ==
    /\ Arrives(p)
    /\ \E token \in Tokens, outcome \in StoreOutcomes :
        /\ req' = [req EXCEPT ![p] = [ op |-> "info", token |-> token ]]
        /\ Failed(outcome)
        /\ IF outcome = "err"
           THEN Finish(p, Response("DatabaseError", None))
           ELSE LET row == FetchOptional(SelectByToken(store, token)) IN
                IF row = NoRow
                THEN Finish(p, Response("NotFound", None))
                ELSE Finish(p, Response("Ok", UrlInfo(row)))
    /\ after' = AfterOnArrival(p)
    /\ UNCHANGED <<store, now, ticks, loc, gen, gone>>

\* ---- DELETE /urls/:token: delete_url
\* The response to the DELETE's rows_affected.
\* (Faulty variant first: rows_affected is not looked at.)
DeleteAlwaysNoContent(affected) == Response("NoContent", None)
DeleteResponse(affected) ==
    IF affected = 0 THEN Response("NotFound", None) ELSE Response("NoContent", None)

DeleteUrl(p) ==
    /\ Arrives(p)
    /\ \E token \in Tokens, outcome \in StoreOutcomes :
        /\ req' = [req EXCEPT ![p] = [ op |-> "delete", token |-> token ]]
        /\ Failed(outcome)
        /\ IF outcome = "err"
           THEN /\ Finish(p, Response("DatabaseError", None))
                /\ UNCHANGED <<store, loc>>
           ELSE LET left == DeleteByToken(store, token)
                    removed == store \ left IN
                /\ store' = left
                /\ loc' = [loc EXCEPT ![p] =
                             [ row |-> FetchOptional(removed), read_at |-> -1,
                               affected |-> Cardinality(removed) ]]
                /\ Finish(p, DeleteResponse(Cardinality(removed)))
    /\ after' = AfterOnArrival(p)
    /\ UNCHANGED <<now, ticks, gen, gone>>

\* ---- GET /:token: redirect_url
\* The SELECT.
ResolveLookup(p) ==
    /\ Arrives(p)
    /\ \E token \in Tokens, outcome \in StoreOutcomes :
        /\ req' = [req EXCEPT ![p] = [ op |-> "resolve", token |-> token ]]
        /\ Failed(outcome)
        /\ IF outcome = "err"
           THEN /\ Finish(p, Response("DatabaseError", None))
                /\ UNCHANGED loc
           ELSE LET row == FetchOptional(SelectByToken(store, token)) IN
                /\ loc' = [loc EXCEPT ![p].row = row]
                /\ IF row = NoRow
                   THEN Finish(p, Response("NotFound", None))
                   ELSE /\ pc' = [pc EXCEPT ![p] = "resolve_check"]
                        /\ UNCHANGED <<resp, prev>>
    /\ after' = AfterOnArrival(p)
    /\ UNCHANGED <<store, now, ticks, gen, gone>>

\* The clock is read and compared with the row's expires_at.
ResolveCheck(p) ==
    /\ pc[p] = "resolve_check"
    /\ loc' = [loc EXCEPT ![p].read_at = now]
    /\ IF IsExpired(now, loc[p].row.expires_at)
       THEN Finish(p, Response("Gone", None))
       ELSE /\ pc' = [pc EXCEPT ![p] = "resolve_increment"]
            /\ UNCHANGED <<resp, prev>>
    /\ gone' = IF IsExpired(now, loc[p].row.expires_at)
               THEN gone \cup { [ id |-> loc[p].row.id, token |-> loc[p].row.token ] }
               ELSE gone
    /\ UNCHANGED <<store, now, ticks, failures, req, after, gen>>

\* The store after the UPDATE of request p.
\* (Faulty variant first: the caller writes back the count it read.)
StoreIncrementedFromRow(p) ==
    { IF r.token = req[p].token
      THEN [r EXCEPT !.click_count = loc[p].row.click_count + 1] ELSE r : r \in store }
StoreIncremented(p) == UpdateClickCount(store, req[p].token)

\* The response after the UPDATE: its rows_affected is not looked at.
\* (Faulty variant first: a redirect to the short URL.)
RedirectToShortUrl(p) == Response("Redirect", ShortUrl(req[p].token))
RedirectResponse(p) == Response("Redirect", loc[p].row.original_url)

\* The UPDATE's error: map_err(AppError::DatabaseError) and `?` end the handler.
\* (Faulty variant first: the error is dropped and the redirect is returned.)
IncrementErrorIgnored(p) ==
    /\ Finish(p, RedirectResponse(p))
    /\ UNCHANGED <<store, loc>>
IncrementFailed(p) ==
    /\ Finish(p, Response("DatabaseError", None))
    /\ UNCHANGED <<store, loc>>

\* The UPDATE and the response.
ResolveIncrement(p) ==
    /\ pc[p] = "resolve_increment"
    /\ \E outcome \in StoreOutcomes :
        /\ Failed(outcome)
        /\ IF outcome = "err"
           THEN IncrementFailed(p)
           ELSE /\ store' = StoreIncremented(p)
                /\ loc' = [loc EXCEPT ![p].affected = RowsAffected(store, req[p].token)]
                /\ Finish(p, RedirectResponse(p))
    /\ UNCHANGED <<now, ticks, req, after, gen, gone>>

Next ==
    \/ Tick
    \/ \E p \in Reqs : CreateBegin(p)
    \/ \E p \in Reqs : CreateDefaultExpiry(p)
    \/ \E p \in Reqs : CreateInsert(p)
    \/ \E p \in Reqs : ListUrls(p)
    \/ \E p \in Reqs : GetUrlInfo(p)
    \/ \E p \in Reqs : DeleteUrl(p)
    \/ \E p \in Reqs : ResolveLookup(p)
    \/ \E p \in Reqs : ResolveCheck(p)
    \/ \E p \in Reqs : ResolveIncrement(p)

Spec == Init /\ [][Next]_vars

\* ------------------------------------------------------------ a stored table
\* quickurl.db outlives the process: the server can start on a table that
\* holds a row of an earlier run.
StoredRow ==
    [ id |-> 0, token |-> <<"a", "B", "c", "1", "2", "3">>,
      original_url |-> HttpPrefix \o <<"o", "l", "d">>, title |-> None,
      created_at |-> 0, expires_at |-> 0, click_count |-> 0 ]

InitStored ==
    /\ store = { StoredRow }
    /\ now = 0
    /\ ticks = 0
    /\ failures = 0
    /\ pc = [ p \in Reqs |-> "idle" ]
    /\ req = [ p \in Reqs |-> [ op |-> "none" ] ]
    /\ loc = [ p \in Reqs |-> NoLoc ]
    /\ resp = [ p \in Reqs |-> NoResp ]
    /\ prev = 0
    /\ after = [ p \in Reqs |-> 0 ]
    /\ gen = Generator(DefaultLength)
    /\ gone = {}

SpecStored == InitStored /\ [][Next]_vars

\* The server starts on such a table at a time past the row's expires_at,
\* after a resolution of an earlier run was answered Gone for the row.
InitExpired ==
    /\ store = { StoredRow }
    /\ now = StoredRow.expires_at + 1
    /\ ticks = 0
    /\ failures = 0
    /\ pc = [ p \in Reqs |-> "idle" ]
    /\ req = [ p \in Reqs |-> [ op |-> "none" ] ]
    /\ loc = [ p \in Reqs |-> NoLoc ]
    /\ resp = [ p \in Reqs |-> NoResp ]
    /\ prev = 0
    /\ after = [ p \in Reqs |-> 0 ]
    /\ gen = Generator(DefaultLength)
    /\ gone = { [ id |-> StoredRow.id, token |-> StoredRow.token ] }

SpecExpired == InitExpired /\ [][Next]_vars

\* ------------------------------------------------------------ TokenGenerator
\* TokenGenerator::new() or TokenGenerator::with_length(n); no request runs.
InitToken ==
    /\ store = {}
    /\ now = 0
    /\ ticks = 0
    /\ failures = 0
    /\ pc = [ p \in Reqs |-> "idle" ]
    /\ req = [ p \in Reqs |-> [ op |-> "none" ] ]
    /\ loc = [ p \in Reqs |-> NoLoc ]
    /\ resp = [ p \in Reqs |-> NoResp ]
    /\ prev = 0
    /\ after = [ p \in Reqs |-> 0 ]
    /\ \E n \in { DefaultLength } \cup (0..MaxTokenLength) : gen = Generator(n)
    /\ gone = {}

\* One turn of generate's map: an index is drawn and its character collected.
GenerateChar ==
    /\ gen.calls < MaxCalls
    /\ ~Collected(gen)
    /\ \E idx \in DrawnIndices :
        gen' = [gen EXCEPT !.out = Append(@, CHARSET[idx + 1])]
    /\ UNCHANGED <<store, now, ticks, failures, pc, req, loc, resp, prev, after, gone>>

\* generate returns the collected string; &self is not written.
GenerateReturn ==
    /\ gen.calls < MaxCalls
    /\ Collected(gen)
    /\ gen' = [gen EXCEPT !.token = gen.out, !.out = <<>>, !.calls = @ + 1]
    /\ UNCHANGED <<store, now, ticks, failures, pc, req, loc, resp, prev, after, gone>>

NextToken == GenerateChar \/ GenerateReturn

SpecToken == InitToken /\ [][NextToken]_vars

\* ------------------------------------------------------------ properties
IsOp(p, op) == req[p].op = op
Has(st, token) == \E r \in st : r.token = token
\* Resolutions of token that returned a redirect.
Redirected(token) ==
    { p \in Reqs : IsOp(p, "resolve") /\ req[p].token = token /\ resp[p].kind = "Redirect" }
\* Some delete request named token.
DeleteSeen(token) == \E p \in Reqs : IsOp(p, "delete") /\ req[p].token = token

\* C1: no lost update. While no delete of a record's token has been
\* requested, the record's click_count equals the number of resolutions of
\* that token that have returned a redirect, however their lookups and
\* increments interleave: N completed resolutions leave it grown by exactly N.
C1_NoLostUpdate ==
    \A r \in store :
        ~DeleteSeen(r.token) => r.click_count = Cardinality(Redirected(r.token))

\* Two resolutions that both looked the record up at click_count 0, hence
\* overlapped, have both returned, and the record counts 2.
C1_Witness ==
    \E p, q \in Reqs :
        /\ p # q
        /\ IsOp(p, "resolve") /\ IsOp(q, "resolve")
        /\ req[p].token = req[q].token
        /\ resp[p].kind = "Redirect" /\ resp[q].kind = "Redirect"
        /\ loc[p].row.click_count = 0 /\ loc[q].row.click_count = 0
        /\ ~DeleteSeen(req[p].token)
        /\ \E r \in store : r.token = req[p].token /\ r.click_count = 2

\* C2: token uniqueness. In every reachable state no two rows of the store
\* have the same token.
C2_TokenUnique ==
    \A r1, r2 \in store : r1.token = r2.token => r1 = r2

\* A create drew the token of a present row of another id and was refused by
\* the store, with no store failure in the run.
C2_Witness ==
    /\ failures = 0
    /\ \E p \in Reqs :
        /\ IsOp(p, "create")
        /\ resp[p].kind = "DatabaseError"
        /\ \E r \in store : r.token = loc[p].token /\ r.id # loc[p].id

\* C3: a resolution that reads a time strictly later than the expires_at of
\* the row it looked up answers Gone (410) and leaves the store, click_count
\* included, as it was.
C3_ExpiredIsGone ==
    [][ \A p \in Reqs :
          ( /\ pc[p] = "resolve_check"
            /\ pc'[p] # "resolve_check"
            /\ loc[p].row.expires_at < loc'[p].read_at )
          => ( /\ resp'[p].kind = "Gone"
               /\ resp'[p].status = 410
               /\ pc'[p] = "done"
               /\ store' = store ) ]_vars

\* A resolution has answered Gone for a row past its expires_at, and the row
\* is in the store as it was looked up.
C3_Witness ==
    \E p \in Reqs :
        /\ IsOp(p, "resolve")
        /\ resp[p].kind = "Gone"
        /\ loc[p].row.expires_at < loc[p].read_at
        /\ loc[p].row \in store

\* Resolutions that have compared the clock with their row's expires_at.
Checked(p) == IsOp(p, "resolve") /\ loc[p].read_at # -1

\* C4, as claimed: a resolution redirects only when its row's expires_at is
\* strictly later than the time it read, and answers Gone when they are equal.
C4_AsClaimed ==
    \A p \in Reqs :
        (Checked(p) /\ pc[p] = "done") =>
            /\ resp[p].kind = "Redirect" => loc[p].row.expires_at > loc[p].read_at
            /\ loc[p].row.expires_at = loc[p].read_at => resp[p].kind = "Gone"

\* C4, amended: a resolution goes on to the increment, and redirects, only
\* when its row's expires_at is later than or equal to the time it read; it
\* answers Gone exactly when the time read is strictly later than expires_at.
C4_GoneOnlyWhenPast ==
    \A p \in Reqs :
        Checked(p) =>
            /\ resp[p].kind = "Gone" <=> loc[p].read_at > loc[p].row.expires_at
            /\ pc[p] = "resolve_increment" => loc[p].row.expires_at >= loc[p].read_at
            /\ resp[p].kind = "Redirect" => loc[p].row.expires_at >= loc[p].read_at

\* A resolution read a time equal to its row's expires_at, incremented the
\* row and redirected.
C4_Witness ==
    \E p \in Reqs :
        /\ Checked(p)
        /\ loc[p].row.expires_at = loc[p].read_at
        /\ resp[p].kind = "Redirect"
        /\ loc[p].affected = 1

\* C5, as claimed: click_count is never incremented at a moment when the
\* record is expired (expires_at <= now).
C5_AsClaimed ==
    [][ \A o \in store, r \in store' :
          (o.id = r.id /\ r.click_count # o.click_count) => o.expires_at > now ]_vars

\* C5, amended: click_count is incremented only by a resolution that has read
\* the clock and found it not later than the expires_at of the row it looked
\* up (check, then increment); the clock may pass expires_at between that
\* check and the increment, and the increment is then still applied.
C5_CheckThenIncrement ==
    [][ \A o \in store, r \in store' :
          (o.id = r.id /\ r.click_count # o.click_count) =>
              \E p \in Reqs :
                  /\ pc[p] = "resolve_increment" /\ pc'[p] = "done"
                  /\ req[p].token = o.token
                  /\ Checked(p)
                  /\ loc[p].read_at <= loc[p].row.expires_at ]_vars

\* A resolution q has answered Gone for a record, and after that a resolution
\* p that had passed its check earlier incremented the same record.
C5_Witness ==
    \E p, q \in Reqs :
        /\ IsOp(p, "resolve") /\ IsOp(q, "resolve")
        /\ resp[q].kind = "Gone"
        /\ resp[p].kind = "Redirect" /\ loc[p].affected = 1
        /\ loc[p].row.id = loc[q].row.id
        /\ prev = p
        /\ \E r \in store : r.id = loc[p].row.id /\ r.click_count = 1 /\ r.expires_at < now

\* A create that succeeded with the default expiry, directly followed by a
\* resolution of the returned token that ran alone, met no store failure and
\* read the clock within the record's validity.
RoundTrip(c, q) ==
    /\ IsOp(c, "create") /\ resp[c].kind = "Created"
    /\ req[c].expires_at = NoExpiry
    /\ IsOp(q, "resolve") /\ pc[q] = "done"
    /\ after[q] = c
    /\ req[q].token = resp[c].body.token
    /\ resp[q].kind # "DatabaseError"
    /\ loc[q].read_at <= resp[c].body.expires_at

\* C6: round trip. Creating a record with an accepted URL u (default expiry)
\* and then resolving the returned token, with no other request in between,
\* returns a redirect to exactly u, and the record's click_count goes from 0
\* to 1.
C6_RoundTrip ==
    \A c, q \in Reqs :
        RoundTrip(c, q) =>
            /\ resp[q].kind = "Redirect"
            /\ resp[q].status = 308
            /\ resp[q].body = req[c].url
            /\ resp[c].body.click_count = 0
            /\ loc[q].row.click_count = 0
            /\ prev = q =>
                 \E r \in store : r.id = resp[c].body.id /\ r.click_count = 1

C6_Witness ==
    \E c, q \in Reqs :
        /\ RoundTrip(c, q)
        /\ prev = q
        /\ resp[q].kind = "Redirect"
        /\ \E r \in store : r.id = resp[c].body.id /\ r.click_count = 1

\* C7: click_count starts at 0, is never negative, and in every step stays
\* the same or grows by exactly 1; it grows only in the increment step of a
\* resolution of that record's token that has passed its expiration check.
C7_ClickCountSteps ==
    [][ /\ \A r \in store' : r.click_count >= 0
        /\ \A r \in store' :
              (\A o \in store : o.id # r.id) => r.click_count = 0
        /\ \A o \in store, r \in store' :
              o.id = r.id =>
                  \/ r.click_count = o.click_count
                  \/ /\ r.click_count = o.click_count + 1
                     /\ \E p \in Reqs :
                          /\ pc[p] = "resolve_increment" /\ pc'[p] = "done"
                          /\ req[p].token = o.token
                          /\ loc[p].read_at <= loc[p].row.expires_at
                          /\ resp'[p].kind = "Redirect" ]_vars

\* A record counts one click after one resolution of it redirected and
\* another answered Gone.
C7_Witness ==
    \E p, q \in Reqs :
        /\ IsOp(p, "resolve") /\ IsOp(q, "resolve")
        /\ resp[p].kind = "Redirect" /\ resp[q].kind = "Gone"
        /\ loc[p].row.id = loc[q].row.id
        /\ \E r \in store : r.id = loc[p].row.id /\ r.click_count = 1

\* Request p arrives in this step as a request of kind op.
ArrivesAs(p, op) == pc[p] = "idle" /\ pc'[p] # "idle" /\ req'[p].op = op

\* C8: a delete of a token that has a record removes the record, expired or
\* not, and answers 204, never Gone; from then on a resolution of that token
\* answers NotFound, until a create inserts a record with that token.
C8_DeleteThenNotFound ==
    [][ /\ \A p \in Reqs :
              ( /\ ArrivesAs(p, "delete")
                /\ Has(store, req'[p].token)
                /\ resp'[p].kind # "DatabaseError" )
              => ( /\ store' = { r \in store : r.token # req'[p].token }
                   /\ resp'[p].kind = "NoContent"
                   /\ resp'[p].status = 204 )
        /\ \A p \in Reqs :
              ( /\ ArrivesAs(p, "resolve")
                /\ ~Has(store, req'[p].token)
                /\ resp'[p].kind # "DatabaseError" )
              => ( /\ resp'[p].kind = "NotFound"
                   /\ resp'[p].status = 404
                   /\ pc'[p] = "done"
                   /\ store' = store )
        /\ \A r \in store' :
              ~Has(store, r.token) =>
                  \E c \in Reqs :
                      /\ pc[c] = "create_insert"
                      /\ resp'[c].kind = "Created"
                      /\ resp'[c].body.token = r.token ]_vars

\* A delete removed a record that was expired from its creation on, and the
\* resolution of its token that directly followed answered NotFound.
C8_Witness ==
    \E d, q \in Reqs :
        /\ IsOp(d, "delete") /\ resp[d].kind = "NoContent"
        /\ loc[d].row.expires_at < loc[d].row.created_at
        /\ IsOp(q, "resolve") /\ req[q].token = req[d].token
        /\ after[q] = d
        /\ resp[q].kind = "NotFound"

\* C9, as claimed: a delete of a token that has no record reports zero rows
\* affected and is not an error.
C9_AsClaimed ==
    \A p \in Reqs :
        (IsOp(p, "delete") /\ pc[p] = "done" /\ loc[p].affected = 0) =>
            resp[p].kind \notin ErrorKinds

\* C9, amended: a delete of a token that has no record affects zero rows,
\* is no store error (not 500) and leaves the store unchanged; delete_url
\* answers it with the NotFound error (404).
C9_DeleteMissingIsNotFound ==
    [][ \A p \in Reqs :
          ( /\ ArrivesAs(p, "delete")
            /\ ~Has(store, req'[p].token)
            /\ resp'[p].kind # "DatabaseError" )
          => ( /\ loc'[p].affected = 0
               /\ store' = store
               /\ resp'[p].kind = "NotFound"
               /\ resp'[p].status = 404 ) ]_vars

\* A second delete of a token directly after the delete that removed its
\* record.
C9_Witness ==
    \E d, e \in Reqs :
        /\ IsOp(d, "delete") /\ resp[d].kind = "NoContent"
        /\ IsOp(e, "delete") /\ req[e].token = req[d].token
        /\ after[e] = d
        /\ loc[e].affected = 0
        /\ resp[e].kind = "NotFound"

\* C10, as claimed: a resolution whose increment matches zero rows, its record
\* having been deleted after the lookup, answers NotFound and no redirect.
C10_AsClaimed ==
    \A p \in Reqs :
        (IsOp(p, "resolve") /\ pc[p] = "done" /\ loc[p].affected = 0) =>
            resp[p].kind = "NotFound"

\* The 62 symbols: upper and lower case Latin letters and digits.
Alphabet62 ==
    { "A", "B", "C", "D", "E", "F", "G", "H", "I", "J", "K", "L", "M",
      "N", "O", "P", "Q", "R", "S", "T", "U", "V", "W", "X", "Y", "Z" }
    \cup
    { "a", "b", "c", "d", "e", "f", "g", "h", "i", "j", "k", "l", "m",
      "n", "o", "p", "q", "r", "s", "t", "u", "v", "w", "x", "y", "z" }
    \cup { "0", "1", "2", "3", "4", "5", "6", "7", "8", "9" }

\* C17: for every configured length n (6 from new, n from with_length) every
\* call of generate returns a string of exactly n characters, each one of the
\* 62 symbols A-Z, a-z, 0-9, and the length of a generator never changes
\* between its calls.
C17_TokenShape ==
    /\ gen.length = gen.configured
    /\ Cardinality(Alphabet62) = 62
    /\ \A i \in 1..Len(CHARSET) : CHARSET[i] \in Alphabet62
    /\ gen.calls > 0 =>
         /\ Len(gen.token) = gen.configured
         /\ \A i \in 1..Len(gen.token) : gen.token[i] \in Alphabet62

\* The second call of the default generator has returned six characters that
\* end in the last symbol of the alphabet.
C17_Witness ==
    /\ gen.configured = DefaultLength
    /\ gen.calls = 2
    /\ Len(gen.token) = 6
    /\ gen.token[6] = "9"
    /\ gen.token[1] = "A"

\* C11: when a create's INSERT carries a token that a record already has
\* (drawn while the record was stored, or drawn by two creates in flight
\* together), the store rejects the INSERT: the store is left as it was, with
\* exactly one record of that token, the one of the first writer, and the
\* rejected create ends at once with DatabaseError, HTTP 500, with no new draw.
C11_DuplicateTokenRejected ==
    [][ \A p \in Reqs :
          ( /\ pc[p] = "create_insert"
            /\ Has(store, loc[p].token)
            /\ (pc'[p] # pc[p] \/ loc'[p] # loc[p] \/ resp'[p] # resp[p]) )
          => /\ store' = store
             /\ Cardinality(SelectByToken(store', loc[p].token)) = 1
             /\ \A r \in store' : r.id # loc[p].id
             /\ pc'[p] = "done"
             /\ loc'[p] = loc[p]
             /\ resp'[p].kind = "DatabaseError"
             /\ resp'[p].status = 500 ]_vars

\* Two creates in flight together drew the same token: the one that arrived
\* later inserted first and was answered Created, the other one was rejected
\* though no store operation broke down, and the record is the first writer's.
C11_Witness ==
    \E first, late \in Reqs :
        /\ late < first
        /\ IsOp(first, "create") /\ IsOp(late, "create")
        /\ resp[first].kind = "Created"
        /\ resp[late].kind = "DatabaseError"
        /\ failures = 0
        /\ loc[late].token = resp[first].body.token
        /\ SelectByToken(store, loc[late].token) = { NewRow(first) }

\* The two prefixes, character by character.
BeginsHttp(url) ==
    /\ Len(url) >= 7
    /\ url[1] = "h" /\ url[2] = "t" /\ url[3] = "t" /\ url[4] = "p"
    /\ url[5] = ":" /\ url[6] = "/" /\ url[7] = "/"
BeginsHttps(url) ==
    /\ Len(url) >= 8
    /\ url[1] = "h" /\ url[2] = "t" /\ url[3] = "t" /\ url[4] = "p"
    /\ url[5] = "s" /\ url[6] = ":" /\ url[7] = "/" /\ url[8] = "/"

\* C12: a create is answered BadRequest, HTTP 400, exactly when its URL
\* begins with neither "http://" nor "https://"; the refused create has drawn
\* no token and leaves the store as it was; a URL with one of the prefixes
\* passes validation and goes on with a token.
C12_ValidationExact ==
    [][ \A p \in Reqs :
          ArrivesAs(p, "create") =>
            LET url == req'[p].url
                bad == ~BeginsHttp(url) /\ ~BeginsHttps(url) IN
            /\ (resp'[p].kind = "BadRequest") <=> bad
            /\ bad => /\ resp'[p].status = 400
                      /\ pc'[p] = "done"
                      /\ loc'[p] = NoLoc
                      /\ store' = store
                      /\ gen' = gen
            /\ ~bad => /\ pc'[p] \in { "create_expiry", "create_insert" }
                       /\ resp'[p] = NoResp
                       /\ loc'[p].token \in Tokens ]_vars

\* A create of "http:/" was refused while a record was stored, and a create
\* of an https URL was answered Created.
C12_Witness ==
    \E p, q \in Reqs :
        /\ IsOp(p, "create") /\ resp[p].kind = "BadRequest"
        /\ req[p].url = <<"h", "t", "t", "p", ":", "/">>
        /\ loc[p] = NoLoc
        /\ IsOp(q, "create") /\ resp[q].kind = "Created"
        /\ BeginsHttps(req[q].url)
        /\ q < p
        /\ store # {}

\* C13, as claimed: a create without expires_at stores and returns an
\* expires_at equal to the record's created_at plus exactly 30 days, however
\* the clock advances during the request.
C13_AsClaimed ==
    \A p \in Reqs :
        ( /\ IsOp(p, "create")
          /\ req[p].expires_at = NoExpiry
          /\ resp[p].kind = "Created" )
        => /\ resp[p].body.expires_at = resp[p].body.created_at + Days30
           /\ \A r \in store :
                r.id = resp[p].body.id => r.expires_at = r.created_at + Days30

\* The fields of a record that are fixed at its creation.
FixedFields(r) ==
    << r.id, r.token, r.original_url, r.title, r.created_at, r.expires_at >>
\* Request p takes a step of handler op.
StepOf(p, op) == pc'[p] # pc[p] /\ req'[p].op = op

\* C14: as long as a record is stored, its id, token, original_url, title,
\* created_at and expires_at stay as they were created, whatever operation
\* runs; a record leaves the store only by a delete of its token; a step of a
\* resolution changes at most one record, only that record's click_count, and
\* only in its increment step; list, get-info and create change no stored
\* record.
C14_OnlyClickCountChanges ==
    [][ /\ \A o \in store, r \in store' :
              o.id = r.id => FixedFields(r) = FixedFields(o)
        /\ \A o \in store :
              (\A r \in store' : r.id # o.id) =>
                  \E p \in Reqs : ArrivesAs(p, "delete") /\ req'[p].token = o.token
        /\ \A p \in Reqs :
              StepOf(p, "resolve") =>
                  /\ Cardinality(store \ store') <= 1
                  /\ { FixedFields(r) : r \in store' } = { FixedFields(o) : o \in store }
                  /\ pc[p] # "resolve_increment" => store' = store
        /\ \A p \in Reqs :
              (StepOf(p, "list") \/ StepOf(p, "info")) => store' = store
        /\ \A p \in Reqs :
              StepOf(p, "create") => store \subseteq store' ]_vars

\* Two records are stored; a resolution redirected to one of them, which
\* counts one click, and the other one still counts none.
C14_Witness ==
    \E p \in Reqs :
        /\ IsOp(p, "resolve") /\ resp[p].kind = "Redirect"
        /\ \E r, o \in store :
              /\ r.id = loc[p].row.id /\ r.click_count = 1
              /\ FixedFields(r) = FixedFields(loc[p].row)
              /\ o.id # r.id /\ o.click_count = 0

\* C15: when a store operation of a request fails (the INSERT, a SELECT, the
\* UPDATE or the DELETE), that step ends the request with DatabaseError,
\* HTTP 500, and leaves the store as it was; the request takes no further
\* step, so nothing is retried.
C15_StoreErrorIsTerminal ==
    [][ /\ failures' # failures =>
              \E p \in Reqs :
                  /\ pc[p] # "done" /\ pc'[p] = "done"
                  /\ resp'[p].kind = "DatabaseError"
                  /\ resp'[p].status = 500
                  /\ store' = store
                  /\ \A q \in Reqs \ { p } : pc'[q] = pc[q] /\ resp'[q] = resp[q]
        /\ \A p \in Reqs :
              pc[p] = "done" =>
                  /\ pc'[p] = "done" /\ resp'[p] = resp[p]
                  /\ req'[p] = req[p] /\ loc'[p] = loc[p] ]_vars

\* The UPDATE of a resolution failed after its lookup and its expiration check
\* had passed: the resolution was answered DatabaseError and the record it had
\* read is stored as it was read.
C15_Witness ==
    \E p \in Reqs :
        /\ IsOp(p, "resolve") /\ pc[p] = "done"
        /\ resp[p].kind = "DatabaseError"
        /\ loc[p].read_at # -1
        /\ failures = 1
        /\ loc[p].row \in store

\* The records of a list response, as a set.
Listed(body) == { body[i] : i \in DOMAIN body }

RedirectsFor(r) ==
    { p \in Reqs :
        /\ IsOp(p, "resolve") /\ resp[p].kind = "Redirect"
        /\ loc[p].row.id = r.id
        /\ resp[p].body = r.original_url }

\* C18, as claimed: whenever no resolution is in progress, the click_count of
\* each stored record is the number of completed resolutions that redirected
\* on behalf of that record; a record created with the token of a deleted one
\* is not counted up for a redirect to the deleted record's URL.
C18_AsClaimed ==
    (\A q \in Reqs : IsOp(q, "resolve") => pc[q] = "done")
    => \A r \in store : r.click_count = Cardinality(RedirectsFor(r))

\* The expiration check of request q is made on a record that a resolution
\* has answered Gone for: it answers Gone, HTTP 410, and the store stays.
GoneStaysGone(q) ==
    ( /\ pc[q] = "resolve_check" /\ pc'[q] # pc[q]
      /\ \E g \in gone : g.id = loc[q].row.id )
    => /\ resp'[q].kind = "Gone" /\ resp'[q].status = 410
       /\ pc'[q] = "done"
       /\ store' = store

\* Request q arrives as a resolution of the token of g, a record that a
\* resolution has answered Gone for, and its SELECT does not fail.
ResolvesTokenOf(q, g) ==
    /\ ArrivesAs(q, "resolve")
    /\ req'[q].token = g.token
    /\ resp'[q].kind # "DatabaseError"

\* C19, as claimed: once a resolution has answered Gone for a record, no
\* later resolution of that record redirects, and a later resolution of its
\* token answers Gone while the record is stored and NotFound after the record
\* is deleted.
C19_AsClaimed ==
    [][ \A q \in Reqs :
          /\ GoneStaysGone(q)
          /\ \A g \in gone :
                ResolvesTokenOf(q, g) =>
                    IF \E r \in store : r.id = g.id
                    THEN loc'[q].row.id = g.id /\ pc'[q] = "resolve_check"
                    ELSE resp'[q].kind = "NotFound" ]_vars

\* C19: once a resolution has answered Gone for a record, every expiration
\* check made later on that record answers Gone, so no later resolution of it
\* redirects; a later resolution of its token reads that record while it is
\* stored, and answers NotFound after the record is deleted for as long as no
\* new record holds the token.
C19_ExpiryPermanent ==
    [][ \A q \in Reqs :
          /\ GoneStaysGone(q)
          /\ \A g \in gone :
                ResolvesTokenOf(q, g) =>
                    /\ (\E r \in store : r.id = g.id) =>
                          loc'[q].row.id = g.id /\ pc'[q] = "resolve_check"
                    /\ ~Has(store, g.token) =>
                          resp'[q].kind = "NotFound" /\ resp'[q].status = 404 ]_vars

\* A resolution of a record that had been answered Gone for was answered Gone
\* again while the record was stored; the record was then deleted and the next
\* resolution of its token was answered NotFound.
C19_Witness ==
    \E g, d, q \in Reqs :
        /\ g < d /\ d < q
        /\ IsOp(g, "resolve") /\ resp[g].kind = "Gone"
        /\ IsOp(d, "delete") /\ resp[d].kind = "NoContent"
        /\ loc[d].row.id = loc[g].row.id
        /\ after[d] = g /\ after[q] = d
        /\ IsOp(q, "resolve") /\ req[q].token = req[g].token
        /\ resp[q].kind = "NotFound"
        /\ Cardinality(gone) = 1

=============================================================================
